---- MODULE Spec2Model ----
(***************************************************************************)
(* PathDisplay (ign_rviz_plugins/src/rviz/plugins/PathDisplay.cpp).        *)
(*                                                                         *)
(* Three threads call into one PathDisplay object:                         *)
(*   "ros"    the executor thread, which runs PathDisplay::callback;       *)
(*   "render" the thread that delivers Render events, i.e. eventFilter     *)
(*            and through it PathDisplay::update;                          *)
(*   "gui"    the thread of the properties panel: setTopic, updateQoS,     *)
(*            onRefresh and the set* setters.                              *)
(*                                                                         *)
(* Every lock-taking method starts with the statement                      *)
(*     std::lock_guard<std::mutex>(this->lock);                            *)
(* which names no variable: it constructs a temporary lock_guard, whose    *)
(* destructor runs at the end of that full expression.  The mutex is       *)
(* therefore acquired and released again before the first statement of     *)
(* the body runs.  The model follows the code: one step for the lock_guard *)
(* statement, then the body, one step per statement (or group of           *)
(* statements) that reads or writes shared state.                          *)
(*                                                                         *)
(* Undefined behaviour: a dereference of a null shared_ptr or of a vector  *)
(* slot past the end of a vector of pointers ends the process (crashed);   *)
(* a read of a pose past the end of msg->poses either ends the process or  *)
(* yields an arbitrary pose.                                               *)
(*                                                                         *)
(* Lengths are integers in hundredths (0.23 is 23).  Positions are         *)
(* integers; an orientation is <<yaw, pitch>> in quarter turns.            *)
(***************************************************************************)
EXTENDS Integers, Sequences, FiniteSets, TLC

(* ------------------------------------------------------------------ *)
(* Bounds                                                             *)
(* ------------------------------------------------------------------ *)
MaxPoses == 2
MaxMsgs == 2
MaxUpdates == 2
MaxOps == 1
MaxConfigOps == 2

(* ------------------------------------------------------------------ *)
(* Program constants (PathDisplay::PathDisplay, lines 36-40)          *)
(* ------------------------------------------------------------------ *)
InitShaftLength == 23
InitShaftRadius == 1
InitHeadLength == 7
InitHeadRadius == 3
InitAxisLength == 30
InitAxisRadius == 3

VARIABLES
  pc, lock, crashed,
  msg, arrows, axes, geometries, rootPose,
  visualShape, axisHeadVisible,
  shaftLength, shaftRadius, headLength, headRadius, axisLength, axisRadius,
  color, matColor, offset, dirty, createMarker,
  topic_name, qos, subscriber, topicList, currentIndex,
  graph, cbMsg, ui, localPose, gop, gi, topics,
  maxRendered, nMsgs, nUpdates, nOps, nSubs

ctlVars == <<pc, lock, crashed>>
sceneVars == <<arrows, axes, geometries, rootPose>>
dimVars == <<shaftLength, shaftRadius, headLength, headRadius, axisLength, axisRadius>>
cfgVars == <<visualShape, axisHeadVisible, dimVars, color, matColor, offset>>
flagVars == <<dirty, createMarker>>
subVars == <<topic_name, qos, subscriber, nSubs>>
refreshVars == <<graph, topicList, currentIndex, topics>>
renderLocals == <<ui, localPose>>
guiLocals == <<gop, gi>>
histVars == <<maxRendered, nMsgs, nUpdates, nOps>>

vars == <<ctlVars, msg, sceneVars, cfgVars, flagVars, subVars, refreshVars,
          cbMsg, renderLocals, guiLocals, histVars>>

Threads == {"ros", "render", "gui"}
Free == "free"

(* ------------------------------------------------------------------ *)
(* Values                                                             *)
(* ------------------------------------------------------------------ *)
NoMsg == [null |-> TRUE]
ZeroRot == <<0, 0>>
ZeroPose == [pos |-> 0, rot |-> ZeroRot]

(* Pose number i (from 1) of path variant v. *)
PoseOf(v, i) == [pos |-> 10 * v + i, rot |-> <<v, 0>>]
PathOf(v, n) == [i \in 1..n |-> PoseOf(v, i)]
Variants == {1, 2}
FrameIds == {"map", "nowhere"}
PoseDomain == {ZeroPose} \cup {PoseOf(v, i) : v \in Variants, i \in 1..MaxPoses}

(* localPose.Rot() * math::Quaterniond(0, 1.57, 0): a further quarter turn
   of pitch. *)
PitchedRot(r) == <<r[1], (r[2] + 1) % 4>>

Positions(poses) == [k \in 1..Len(poses) |-> poses[k].pos]

Max(a, b) == IF a >= b THEN a ELSE b

Shapes == {0, 1, 2}
Colors == {0, 1}
Offsets == {0, 1}
ArrowDimArgs == {<<InitShaftLength, InitShaftRadius, InitHeadLength, InitHeadRadius>>,
                 <<50, 2, 10, 4>>}
AxisDimArgs == {<<InitAxisLength, InitAxisRadius>>, <<60, 5>>}
TopicNames == {1, 2}
(* The topic the host passes when it loads the plugin. *)
ConfiguredTopic == CHOOSE t \in TopicNames : \A u \in TopicNames : t >= u
PathType == "nav_msgs/msg/Path"
OtherType == "std_msgs/msg/String"
(* The types one topic can advertise; <<>> stands for a topic that does not
   exist. *)
TypeLists == {<<>>, <<PathType>>, <<OtherType>>, <<OtherType, PathType>>}
(* node->get_topic_names_and_types(): a std::map, enumerated in the order of
   its keys; here the list of its entries in that order. *)
RECURSIVE EntriesOf(_, _)
EntriesOf(g, names) ==
  IF names = {} THEN <<>>
  ELSE LET n == CHOOSE x \in names : \A y \in names : x <= y
           rest == EntriesOf(g, names \ {n})
       IN IF g[n] = <<>> THEN rest
          ELSE <<[first |-> n, second |-> g[n]]>> \o rest
Graphs == {EntriesOf(g, TopicNames) : g \in [TopicNames -> TypeLists]}
QoSArgs == {<<5, 0, 0, 0>>, <<1, 1, 1, 1>>}
NoSub == [null |-> TRUE]

(* ------------------------------------------------------------------ *)
(* The frame manager (common::FrameManager::getFramePose)             *)
(* ------------------------------------------------------------------ *)
FramePoseAvailable(frame_id) == frame_id = "map"
FramePose(frame_id) == [pos |-> 100, rot |-> <<1, 0>>]

(* ------------------------------------------------------------------ *)
(* Initial state                                                      *)
(* ------------------------------------------------------------------ *)
Init ==
  /\ pc = [t \in Threads |-> IF t = "gui" THEN "load" ELSE "idle"]
  /\ lock = Free
  /\ crashed = FALSE
  /\ msg = NoMsg
  /\ arrows = <<>>
  /\ axes = <<>>
  /\ geometries = <<>>
  /\ rootPose = ZeroPose
  /\ visualShape = 0
  /\ axisHeadVisible = FALSE
  /\ shaftLength = InitShaftLength
  /\ shaftRadius = InitShaftRadius
  /\ headLength = InitHeadLength
  /\ headRadius = InitHeadRadius
  /\ axisLength = InitAxisLength
  /\ axisRadius = InitAxisRadius
  /\ color = 0
  /\ matColor = 0
  /\ offset = 0
  /\ dirty = FALSE
  /\ createMarker = TRUE
  /\ topic_name = 0
  /\ qos = <<5, 0, 0, 0>>
  /\ subscriber = NoSub
  /\ topicList = <<>>
  /\ currentIndex = 0
  /\ cbMsg = NoMsg
  /\ ui = 0
  /\ localPose = ZeroPose
  /\ gop = [op |-> "none"]
  /\ gi = 0
  /\ topics = <<>>
  /\ graph = EntriesOf([n \in TopicNames |-> <<PathType>>], TopicNames)
  /\ maxRendered = 0
  /\ nMsgs = 0
  /\ nUpdates = 0
  /\ nOps = 0
  /\ nSubs = 0

(* Thread t is at program point l, and the process has not ended. *)
At(t, l) == crashed = FALSE /\ pc[t] = l

Goto(t, l) == pc' = [pc EXCEPT ![t] = l]

(* ------------------------------------------------------------------ *)
(* std::lock_guard<std::mutex>(this->lock);                           *)
(* ------------------------------------------------------------------ *)
(* The whole statement: the temporary's constructor waits for the mutex and
   takes it (std::mutex::lock), and its destructor, at the end of the same
   full expression, gives it back (std::mutex::unlock).  No other statement of
   the thread runs in between, so the statement is one step, and the mutex is
   free again when the step ends. *)
LockGuard(t, from, to) ==
  /\ At(t, from)
  /\ lock = Free
  /\ lock' = Free
  /\ Goto(t, to)
  /\ UNCHANGED crashed

(* The process ends (segmentation fault). *)
Crash == /\ crashed' = TRUE
         /\ UNCHANGED <<pc, lock>>

Step(t, l) == /\ Goto(t, l)
              /\ UNCHANGED <<lock, crashed>>

(* ------------------------------------------------------------------ *)
(* PathDisplay::callback on the executor thread                       *)
(* ------------------------------------------------------------------ *)
(* The messages subscription number sub can deliver as the seq-th message
   received.  sub and seq say where a message came from; the code reads
   neither. *)
Messages(sub, seq) ==
  {[frame_id |-> f, poses |-> PathOf(v, n), sub |-> sub, seq |-> seq] :
     f \in FrameIds, v \in Variants, n \in 0..MaxPoses}

(* The subscription hands a message to std::bind(&PathDisplay::callback). *)
Deliver ==
  /\ At("ros", "idle")
  /\ subscriber # NoSub
  /\ nMsgs < MaxMsgs
  /\ cbMsg' \in Messages(subscriber.id, nMsgs + 1)
  /\ nMsgs' = nMsgs + 1
  /\ Step("ros", "cb_lock")
  /\ UNCHANGED <<msg, sceneVars, cfgVars, flagVars, subVars, refreshVars,
                 renderLocals, guiLocals, maxRendered, nUpdates, nOps>>

CallbackLock ==
  /\ LockGuard("ros", "cb_lock", "cb_write")
  /\ UNCHANGED <<msg, sceneVars, cfgVars, flagVars, subVars, refreshVars,
                 cbMsg, renderLocals, guiLocals, histVars>>

(* Mutant of CallbackWrite: a buffered message is kept, the new one dropped. *)
CallbackWrite_KeepFirst ==
  /\ At("ros", "cb_write")
  /\ msg' = IF msg = NoMsg THEN cbMsg ELSE msg
  /\ cbMsg' = NoMsg
  /\ Step("ros", "idle")
  /\ UNCHANGED <<sceneVars, cfgVars, flagVars, subVars, refreshVars,
                 renderLocals, guiLocals, histVars>>

(* this->msg = std::move(_msg); *)
CallbackWrite ==
  /\ At("ros", "cb_write")
  /\ msg' = cbMsg
  /\ cbMsg' = NoMsg
  /\ Step("ros", "idle")
  /\ UNCHANGED <<sceneVars, cfgVars, flagVars, subVars, refreshVars,
                 renderLocals, guiLocals, histVars>>

(* ------------------------------------------------------------------ *)
(* Visuals                                                            *)
(* ------------------------------------------------------------------ *)
(* scene->CreateAxisVisual(); SetVisible(false): the axis for pose index i. *)
NewAxis(i) ==
  [forPose |-> i, pose |-> ZeroPose, visible |-> FALSE, head |-> TRUE,
   scale |-> <<100, 100, 100>>]

(* scene->CreateArrowVisual(); SetMaterial(mat); SetVisible(false). *)
NewArrow(i, m) ==
  [forPose |-> i, pose |-> ZeroPose, visible |-> FALSE, mat |-> m,
   shaft |-> <<100, 100, 100>>, origin |-> 0, head |-> <<100, 100, 100>>]

(* updateVisual, the arrow: Shaft()->SetLocalScale, SetOrigin,
   Head()->SetLocalScale. *)
ArrowDimensions(a, sl, sr, hl, hr) ==
  [a EXCEPT !.shaft = <<sr * 2, sr * 2, sl>>,
            !.origin = 0 - sl,
            !.head = <<hr * 2, hr * 2, hl * 2>>]

(* updateVisual, the axis: the three child arrows get the same scale. *)
AxisDimensions(x, al, ar) ==
  [x EXCEPT !.scale = <<ar * 20, ar * 20, al * 2>>]

(* axes[i]->SetLocalPose, SetVisible, ShowAxisHead. *)
PlaceAxis(x, p, shape, headVisible) ==
  [x EXCEPT !.pose = p,
            !.visible = (shape = 2),
            !.head = (shape = 2 /\ headVisible)]

(* arrows[i]->SetLocalPosition, SetLocalRotation, SetVisible. *)
PlaceArrow(a, p, shape) ==
  [a EXCEPT !.pose = [pos |-> p.pos, rot |-> PitchedRot(p.rot)],
            !.visible = (shape = 1)]

Hide(v) == [v EXCEPT !.visible = FALSE]

(* marker->AddPoint(localPose.Pos(), this->color). *)
AddPoint(marker, p, c) ==
  [marker EXCEPT !.points = Append(@, [pos |-> p.pos, color |-> c])]

(* scene->CreateMarker(): a line strip with no points. *)
NewMarker == [type |-> "MT_LINE_STRIP", points |-> <<>>]

(* ------------------------------------------------------------------ *)
(* PathDisplay::eventFilter and PathDisplay::update on the render     *)
(* thread.  ui is the loop variable i of the running loop.            *)
(* ------------------------------------------------------------------ *)
(* A Render event arrives: eventFilter calls update(). *)
RenderEvent ==
  /\ At("render", "idle")
  /\ nUpdates < MaxUpdates
  /\ nUpdates' = nUpdates + 1
  /\ Step("render", "u_lock")
  /\ UNCHANGED <<msg, sceneVars, cfgVars, flagVars, subVars, refreshVars,
                 cbMsg, renderLocals, guiLocals, maxRendered, nMsgs, nOps>>

UpdateLock ==
  /\ LockGuard("render", "u_lock", "u_check")
  /\ UNCHANGED <<msg, sceneVars, cfgVars, flagVars, subVars, refreshVars,
                 cbMsg, renderLocals, guiLocals, histVars>>

(* if (!this->msg) return; *)
UpdateCheck ==
  /\ At("render", "u_check")
  /\ Step("render", IF msg = NoMsg THEN "idle" ELSE "u_marker")
  /\ UNCHANGED <<msg, sceneVars, cfgVars, flagVars, subVars, refreshVars,
                 cbMsg, renderLocals, guiLocals, histVars>>

(* Mutant of UpdateMarker: the new marker is added without removing the old
   geometries. *)
UpdateMarker_NoRemove ==
  /\ At("render", "u_marker")
  /\ IF createMarker
       THEN /\ geometries' = <<NewMarker>> \o geometries
            /\ createMarker' = FALSE
       ELSE UNCHANGED <<geometries, createMarker>>
  /\ Step("render", "u_frame")
  /\ UNCHANGED <<msg, arrows, axes, rootPose, cfgVars, dirty, subVars,
                 refreshVars, cbMsg, renderLocals, guiLocals, histVars>>

(* if (this->createMarker) { RemoveGeometries; CreateMarker; AddGeometry;
   createMarker = false; } *)
UpdateMarker ==
  /\ At("render", "u_marker")
  /\ IF createMarker
       THEN /\ geometries' = <<NewMarker>>
            /\ createMarker' = FALSE
       ELSE UNCHANGED <<geometries, createMarker>>
  /\ Step("render", "u_frame")
  /\ UNCHANGED <<msg, arrows, axes, rootPose, cfgVars, dirty, subVars,
                 refreshVars, cbMsg, renderLocals, guiLocals, histVars>>

(* poseAvailable = frameManager->getFramePose(msg->header.frame_id, ...);
   if (!poseAvailable) ... *)
UpdateFrame ==
  /\ At("render", "u_frame")
  /\ IF msg = NoMsg
       THEN Crash
       ELSE Step("render", IF FramePoseAvailable(msg.frame_id) THEN "u_root" ELSE "u_error")
  /\ UNCHANGED <<msg, sceneVars, cfgVars, flagVars, subVars, refreshVars,
                 cbMsg, renderLocals, guiLocals, histVars>>

(* Mutant of UpdateError: the message whose frame is unknown is dropped. *)
UpdateError_DropMsg ==
  /\ At("render", "u_error")
  /\ IF msg = NoMsg THEN Crash ELSE Step("render", "idle")
  /\ msg' = NoMsg
  /\ UNCHANGED <<sceneVars, cfgVars, flagVars, subVars, refreshVars,
                 cbMsg, renderLocals, guiLocals, histVars>>

(* RCLCPP_ERROR(node->get_logger(), "Unable to get frame pose: %s", ...);
   return; *)
UpdateError ==
  /\ At("render", "u_error")
  /\ IF msg = NoMsg THEN Crash ELSE Step("render", "idle")
  /\ UNCHANGED <<msg, sceneVars, cfgVars, flagVars, subVars, refreshVars,
                 cbMsg, renderLocals, guiLocals, histVars>>

(* rootVisual->SetLocalPosition(visualPose.Pos() + offset); SetLocalRotation;
   marker = GeometryByIndex(0); marker->ClearPoints();
   and the initialisation i = msg->poses.size() of the hide loop. *)
UpdateRoot ==
  /\ At("render", "u_root")
  /\ IF msg = NoMsg \/ Len(geometries) = 0
       THEN /\ Crash
            /\ UNCHANGED <<rootPose, geometries, ui>>
       ELSE /\ rootPose' = [pos |-> FramePose(msg.frame_id).pos + offset,
                            rot |-> FramePose(msg.frame_id).rot]
            /\ geometries' = [geometries EXCEPT ![1].points = <<>>]
            /\ ui' = Len(msg.poses)
            /\ Step("render", "u_hide")
  /\ UNCHANGED <<msg, arrows, axes, cfgVars, flagVars, subVars, refreshVars,
                 cbMsg, localPose, guiLocals, histVars>>

(* for (i = msg->poses.size(); i < axes.size(); ++i)
     { axes[i]->SetVisible(false); arrows[i]->SetVisible(false); } *)
UpdateHide ==
  /\ At("render", "u_hide")
  /\ IF ui < Len(axes)
       THEN IF ui < Len(arrows)
         THEN /\ axes' = [axes EXCEPT ![ui + 1] = Hide(@)]
              /\ arrows' = [arrows EXCEPT ![ui + 1] = Hide(@)]
              /\ ui' = ui + 1
              /\ Step("render", "u_hide")
         ELSE /\ Crash
              /\ UNCHANGED <<axes, arrows, ui>>
       ELSE /\ ui' = 0
            /\ Step("render", "u_loop")
            /\ UNCHANGED <<axes, arrows>>
  /\ UNCHANGED <<msg, geometries, rootPose, cfgVars, flagVars, subVars,
                 refreshVars, cbMsg, localPose, guiLocals, histVars>>

(* for (int i = 0; i < msg->poses.size(); ++i): the loop condition.  When it
   fails the poses have been rendered; maxRendered records the largest pose
   count that ended this loop. *)
UpdateLoop ==
  /\ At("render", "u_loop")
  /\ IF msg = NoMsg
       THEN /\ Crash
            /\ UNCHANGED maxRendered
       ELSE IF ui < Len(msg.poses)
         THEN /\ Step("render", "u_axis")
              /\ UNCHANGED maxRendered
         ELSE /\ Step("render", "u_dirty")
              /\ maxRendered' = Max(maxRendered, Len(msg.poses))
  /\ UNCHANGED <<msg, sceneVars, cfgVars, flagVars, subVars, refreshVars,
                 cbMsg, renderLocals, guiLocals, nMsgs, nUpdates, nOps>>

(* Mutant: the axis is created and pushed, the arrow is not. *)
UpdateCreateAxis_NoArrow ==
  /\ At("render", "u_axis")
  /\ IF Len(axes) = ui
       THEN axes' = Append(axes, NewAxis(ui))
       ELSE UNCHANGED axes
  /\ Step("render", "u_pose")
  /\ UNCHANGED <<msg, arrows, geometries, rootPose, cfgVars, flagVars, subVars,
                 refreshVars, cbMsg, renderLocals, guiLocals, histVars>>

(* if (axes.size() == i) { CreateAxisVisual; SetVisible(false); AddChild;
   axes.push_back(axis); *)
UpdateCreateAxis ==
  /\ At("render", "u_axis")
  /\ IF Len(axes) = ui
       THEN /\ axes' = Append(axes, NewAxis(ui))
            /\ Step("render", "u_arrow")
       ELSE /\ UNCHANGED axes
            /\ Step("render", "u_pose")
  /\ UNCHANGED <<msg, arrows, geometries, rootPose, cfgVars, flagVars, subVars,
                 refreshVars, cbMsg, renderLocals, guiLocals, histVars>>

(* CreateArrowVisual; SetMaterial(mat); SetVisible(false); AddChild;
   arrows.push_back(arrow); updateVisual(i); } *)
UpdateCreateArrow ==
  /\ At("render", "u_arrow")
  /\ LET grown == Append(arrows, NewArrow(ui, matColor)) IN
     IF ui < Len(grown) /\ ui < Len(axes)
       THEN /\ arrows' = [grown EXCEPT ![ui + 1] =
                 ArrowDimensions(@, shaftLength, shaftRadius, headLength, headRadius)]
            /\ axes' = [axes EXCEPT ![ui + 1] = AxisDimensions(@, axisLength, axisRadius)]
            /\ Step("render", "u_pose")
       ELSE /\ Crash
            /\ UNCHANGED <<arrows, axes>>
  /\ UNCHANGED <<msg, geometries, rootPose, cfgVars, flagVars, subVars,
                 refreshVars, cbMsg, renderLocals, guiLocals, histVars>>

(* math::Pose3d localPose(msg->poses[i].pose...): msg may have been replaced
   or cleared since the loop condition was evaluated. *)
UpdatePose ==
  /\ At("render", "u_pose")
  /\ IF msg = NoMsg
       THEN /\ Crash
            /\ UNCHANGED localPose
       ELSE IF ui < Len(msg.poses)
         THEN /\ localPose' = msg.poses[ui + 1]
              /\ Step("render", "u_place")
         ELSE \/ /\ Crash
                 /\ UNCHANGED localPose
              \/ /\ localPose' \in PoseDomain
                 /\ Step("render", "u_place")
  /\ UNCHANGED <<msg, sceneVars, cfgVars, flagVars, subVars, refreshVars,
                 cbMsg, ui, guiLocals, histVars>>

(* marker->AddPoint(localPose.Pos(), color); axes[i]->...; arrows[i]->...;
   ++i *)
UpdatePlace ==
  /\ At("render", "u_place")
  /\ IF ui < Len(axes) /\ ui < Len(arrows) /\ Len(geometries) > 0
       THEN /\ geometries' = [geometries EXCEPT ![1] = AddPoint(@, localPose, color)]
            /\ axes' = [axes EXCEPT ![ui + 1] =
                 PlaceAxis(@, localPose, visualShape, axisHeadVisible)]
            /\ arrows' = [arrows EXCEPT ![ui + 1] = PlaceArrow(@, localPose, visualShape)]
            /\ ui' = ui + 1
            /\ Step("render", "u_loop")
       ELSE /\ Crash
            /\ UNCHANGED <<geometries, axes, arrows, ui>>
  /\ UNCHANGED <<msg, rootPose, cfgVars, flagVars, subVars, refreshVars,
                 cbMsg, localPose, guiLocals, histVars>>

(* if (dirty) { ... } *)
UpdateDirty ==
  /\ At("render", "u_dirty")
  /\ ui' = 0
  /\ Step("render", IF dirty THEN "u_visual" ELSE "idle")
  /\ UNCHANGED <<msg, sceneVars, cfgVars, flagVars, subVars, refreshVars,
                 cbMsg, localPose, guiLocals, histVars>>

(* for (int i = 0; i < axes.size(); ++i) updateVisual(i); *)
UpdateVisuals ==
  /\ At("render", "u_visual")
  /\ IF ui < Len(axes)
       THEN IF ui < Len(arrows)
         THEN /\ arrows' = [arrows EXCEPT ![ui + 1] =
                   ArrowDimensions(@, shaftLength, shaftRadius, headLength, headRadius)]
              /\ axes' = [axes EXCEPT ![ui + 1] = AxisDimensions(@, axisLength, axisRadius)]
              /\ ui' = ui + 1
              /\ Step("render", "u_visual")
         ELSE /\ Crash
              /\ UNCHANGED <<arrows, axes, ui>>
       ELSE /\ ui' = 0
            /\ Step("render", "u_clean")
            /\ UNCHANGED <<arrows, axes>>
  /\ UNCHANGED <<msg, geometries, rootPose, cfgVars, flagVars, subVars,
                 refreshVars, cbMsg, localPose, guiLocals, histVars>>

(* this->dirty = false; *)
UpdateClean ==
  /\ At("render", "u_clean")
  /\ dirty' = FALSE
  /\ Step("render", "idle")
  /\ UNCHANGED <<msg, sceneVars, cfgVars, createMarker, subVars, refreshVars,
                 cbMsg, renderLocals, guiLocals, histVars>>

(* ------------------------------------------------------------------ *)
(* The properties panel and the host on the gui thread.  gop is the   *)
(* running call with its arguments, gi the loop variable of reset.    *)
(* ------------------------------------------------------------------ *)
PanelOps ==
  {[op |-> "setTopicQ", topic |-> t] : t \in TopicNames}
  \cup {[op |-> "updateQoS", qos |-> q] : q \in QoSArgs}
  \cup {[op |-> "onRefresh"]}
  \cup {[op |-> "setShape", shape |-> s] : s \in Shapes}
  \cup {[op |-> "setAxisHeadVisibility", visible |-> b] : b \in BOOLEAN}
  \cup {[op |-> "setAxisDimensions", dims |-> d] : d \in AxisDimArgs}
  \cup {[op |-> "setArrowDimensions", dims |-> d] : d \in ArrowDimArgs}
  \cup {[op |-> "setColor", color |-> c] : c \in Colors}
  \cup {[op |-> "setLineColor", color |-> c] : c \in Colors}
  \cup {[op |-> "setOffset", offset |-> o] : o \in Offsets}

(* The host loads the plugin: setTopic(const std::string &). *)
Load ==
  /\ At("gui", "load")
  /\ gop' = [op |-> "setTopicStd", topic |-> ConfiguredTopic]
  /\ Step("gui", "g_lock")
  /\ UNCHANGED <<msg, sceneVars, cfgVars, flagVars, subVars, refreshVars,
                 cbMsg, renderLocals, gi, histVars>>

(* The panel calls a slot. *)
PanelCall ==
  /\ At("gui", "idle")
  /\ nOps < MaxOps
  /\ nOps' = nOps + 1
  /\ gop' \in PanelOps
  /\ Step("gui", "g_lock")
  /\ UNCHANGED <<msg, sceneVars, cfgVars, flagVars, subVars, refreshVars,
                 cbMsg, renderLocals, gi, maxRendered, nMsgs, nUpdates>>

GuiLock ==
  /\ LockGuard("gui", "g_lock", IF gop.op = "onRefresh" THEN "g_refresh" ELSE "g_body")
  /\ UNCHANGED <<msg, sceneVars, cfgVars, flagVars, subVars, refreshVars,
                 cbMsg, renderLocals, guiLocals, histVars>>

(* Return from the slot. *)
Return == /\ Step("gui", "idle")
          /\ gop' = [op |-> "none"]
          /\ gi' = 0

(* setTopic(const std::string &): this->topic_name = topic_name; then
   subscribe(). *)
SetTopicStd ==
  /\ At("gui", "g_body")
  /\ gop.op = "setTopicStd"
  /\ topic_name' = gop.topic
  /\ Step("gui", "g_sub_lock")
  /\ UNCHANGED <<msg, sceneVars, cfgVars, flagVars, qos, subscriber, nSubs,
                 refreshVars, cbMsg, renderLocals, guiLocals, histVars>>

(* setTopic(const QString &): this->topic_name = topic_name.toStdString();
   then unsubscribe(). *)
SetTopicQ ==
  /\ At("gui", "g_body")
  /\ gop.op = "setTopicQ"
  /\ topic_name' = gop.topic
  /\ Step("gui", "g_unsub")
  /\ UNCHANGED <<msg, sceneVars, cfgVars, flagVars, qos, subscriber, nSubs,
                 refreshVars, cbMsg, renderLocals, guiLocals, histVars>>

(* updateQoS: setHistoryDepth, setHistoryPolicy, setReliabilityPolicy,
   setDurabilityPolicy; then unsubscribe(). *)
UpdateQoS ==
  /\ At("gui", "g_body")
  /\ gop.op = "updateQoS"
  /\ qos' = gop.qos
  /\ Step("gui", "g_unsub")
  /\ UNCHANGED <<msg, sceneVars, cfgVars, flagVars, topic_name, subscriber, nSubs,
                 refreshVars, cbMsg, renderLocals, guiLocals, histVars>>

(* MessageDisplay::unsubscribe(): the subscription is destroyed. *)
Unsubscribe ==
  /\ At("gui", "g_unsub")
  /\ subscriber' = NoSub
  /\ gi' = 0
  /\ Step("gui", "g_reset")
  /\ UNCHANGED <<msg, sceneVars, cfgVars, flagVars, topic_name, qos, nSubs,
                 refreshVars, cbMsg, renderLocals, gop, histVars>>

ZeroPosed(v) == [v EXCEPT !.pose = ZeroPose]

(* reset(): for (i = 0; i < axes.size(); ++i)
     { arrows[i]->SetLocalPose(Zero); axes[i]->SetLocalPose(Zero); } *)
ResetLoop ==
  /\ At("gui", "g_reset")
  /\ IF gi < Len(axes)
       THEN IF gi < Len(arrows)
         THEN /\ arrows' = [arrows EXCEPT ![gi + 1] = ZeroPosed(@)]
              /\ axes' = [axes EXCEPT ![gi + 1] = ZeroPosed(@)]
              /\ gi' = gi + 1
              /\ Step("gui", "g_reset")
         ELSE /\ Crash
              /\ UNCHANGED <<arrows, axes, gi>>
       ELSE /\ Step("gui", "g_msgreset")
            /\ UNCHANGED <<arrows, axes, gi>>
  /\ UNCHANGED <<msg, geometries, rootPose, cfgVars, flagVars, subVars,
                 refreshVars, cbMsg, renderLocals, gop, histVars>>

(* reset(): this->msg.reset(); then subscribe(). *)
ResetMsg ==
  /\ At("gui", "g_msgreset")
  /\ msg' = NoMsg
  /\ Step("gui", "g_sub_lock")
  /\ UNCHANGED <<sceneVars, cfgVars, flagVars, subVars, refreshVars,
                 cbMsg, renderLocals, guiLocals, histVars>>

(* subscribe(): its own lock_guard temporary. *)
SubscribeLock ==
  /\ LockGuard("gui", "g_sub_lock", "g_subscribe")
  /\ UNCHANGED <<msg, sceneVars, cfgVars, flagVars, subVars, refreshVars,
                 cbMsg, renderLocals, guiLocals, histVars>>

(* subscribe(): this->subscriber = node->create_subscription(topic_name, qos,
   callback).  setTopic(const std::string &) goes on to onRefresh(); the other
   callers return. *)
Subscribe ==
  /\ At("gui", "g_subscribe")
  /\ subscriber' = [topic |-> topic_name, qos |-> qos, id |-> nSubs + 1]
  /\ nSubs' = nSubs + 1
  /\ IF gop.op = "setTopicStd"
       THEN /\ Step("gui", "g_ref_lock")
            /\ UNCHANGED guiLocals
       ELSE Return
  /\ UNCHANGED <<msg, sceneVars, cfgVars, flagVars, topic_name, qos,
                 refreshVars, cbMsg, renderLocals, histVars>>

(* onRefresh() called from setTopic: its own lock_guard temporary. *)
RefreshLock ==
  /\ LockGuard("gui", "g_ref_lock", "g_refresh")
  /\ UNCHANGED <<msg, sceneVars, cfgVars, flagVars, subVars, refreshVars,
                 cbMsg, renderLocals, guiLocals, histVars>>

(* Mutant of RefreshTypes: the position is taken at the configured topic
   whatever the type. *)
RECURSIVE RefreshTypes_AnyType(_, _, _, _)
RefreshTypes_AnyType(types, name, current, acc) ==
  IF types = <<>> THEN acc
  ELSE LET hit == Head(types) = PathType
           list == IF hit THEN Append(acc.list, name) ELSE acc.list
           position == IF name = current THEN acc.index ELSE acc.position
           index == IF hit THEN acc.index + 1 ELSE acc.index
       IN RefreshTypes_AnyType(Tail(types), name, current,
                               [list |-> list, index |-> index, position |-> position])

(* The loops of onRefresh over the entries of topics from entry k on, with the
   list built so far, index and position: <<topicList, position>>. *)
RECURSIVE RefreshTypes(_, _, _, _)
RefreshTypes(types, name, current, acc) ==
  IF types = <<>> THEN acc
  ELSE LET hit == Head(types) = PathType
           list == IF hit THEN Append(acc.list, name) ELSE acc.list
           position == IF hit /\ name = current THEN acc.index ELSE acc.position
           index == IF hit THEN acc.index + 1 ELSE acc.index
       IN RefreshTypes(Tail(types), name, current,
                       [list |-> list, index |-> index, position |-> position])

RECURSIVE RefreshTopics(_, _, _)
RefreshTopics(entries, current, acc) ==
  IF entries = <<>> THEN acc
  ELSE RefreshTopics(Tail(entries), current,
                     RefreshTypes(Head(entries).second, Head(entries).first, current, acc))

(* onRefresh(): topicList.clear(); topics = node->get_topic_names_and_types();
   the loops; topicListChanged(); emit setCurrentIndex(position). *)
OnRefresh ==
  /\ At("gui", "g_refresh")
  /\ LET r == RefreshTopics(graph, topic_name,
                            [list |-> <<>>, index |-> 0, position |-> 0])
     IN /\ topics' = graph
        /\ topicList' = r.list
        /\ currentIndex' = r.position
  /\ Step("gui", "g_ref_ret")
  /\ UNCHANGED <<msg, sceneVars, cfgVars, flagVars, subVars, graph,
                 cbMsg, renderLocals, guiLocals, histVars>>

(* onRefresh() returns (topics goes out of scope), and so does its caller. *)
RefreshReturn ==
  /\ At("gui", "g_ref_ret")
  /\ topics' = <<>>
  /\ Return
  /\ UNCHANGED <<msg, sceneVars, cfgVars, flagVars, subVars, graph, topicList,
                 currentIndex, cbMsg, renderLocals, histVars>>

SetShape ==
  /\ At("gui", "g_body")
  /\ gop.op = "setShape"
  /\ visualShape' = gop.shape
  /\ dirty' = TRUE
  /\ Return
  /\ UNCHANGED <<msg, sceneVars, axisHeadVisible, dimVars, color, matColor, offset,
                 createMarker, subVars, refreshVars, cbMsg, renderLocals, histVars>>

SetAxisHeadVisibility ==
  /\ At("gui", "g_body")
  /\ gop.op = "setAxisHeadVisibility"
  /\ axisHeadVisible' = gop.visible
  /\ dirty' = TRUE
  /\ Return
  /\ UNCHANGED <<msg, sceneVars, visualShape, dimVars, color, matColor, offset,
                 createMarker, subVars, refreshVars, cbMsg, renderLocals, histVars>>

SetAxisDimensions ==
  /\ At("gui", "g_body")
  /\ gop.op = "setAxisDimensions"
  /\ axisLength' = gop.dims[1]
  /\ axisRadius' = gop.dims[2]
  /\ dirty' = TRUE
  /\ Return
  /\ UNCHANGED <<msg, sceneVars, visualShape, axisHeadVisible,
                 shaftLength, shaftRadius, headLength, headRadius,
                 color, matColor, offset,
                 createMarker, subVars, refreshVars, cbMsg, renderLocals, histVars>>

SetArrowDimensions ==
  /\ At("gui", "g_body")
  /\ gop.op = "setArrowDimensions"
  /\ shaftLength' = gop.dims[1]
  /\ shaftRadius' = gop.dims[2]
  /\ headLength' = gop.dims[3]
  /\ headRadius' = gop.dims[4]
  /\ dirty' = TRUE
  /\ Return
  /\ UNCHANGED <<msg, sceneVars, visualShape, axisHeadVisible, axisLength, axisRadius,
                 color, matColor, offset,
                 createMarker, subVars, refreshVars, cbMsg, renderLocals, histVars>>

(* setColor: mat->SetAmbient/SetDiffuse/SetEmissive; every arrow gets the
   material again. *)
SetColor ==
  /\ At("gui", "g_body")
  /\ gop.op = "setColor"
  /\ matColor' = gop.color
  /\ arrows' = [k \in 1..Len(arrows) |-> [arrows[k] EXCEPT !.mat = gop.color]]
  /\ Return
  /\ UNCHANGED <<msg, axes, geometries, rootPose, visualShape, axisHeadVisible, dimVars,
                 color, offset, flagVars, subVars, refreshVars, cbMsg, renderLocals,
                 histVars>>

(* setLineColor: color.Set(...); createMarker = true. *)
SetLineColor ==
  /\ At("gui", "g_body")
  /\ gop.op = "setLineColor"
  /\ color' = gop.color
  /\ createMarker' = TRUE
  /\ Return
  /\ UNCHANGED <<msg, sceneVars, visualShape, axisHeadVisible, dimVars, matColor, offset,
                 dirty, subVars, refreshVars, cbMsg, renderLocals, histVars>>

SetOffset ==
  /\ At("gui", "g_body")
  /\ gop.op = "setOffset"
  /\ offset' = gop.offset
  /\ Return
  /\ UNCHANGED <<msg, sceneVars, visualShape, axisHeadVisible, dimVars, color, matColor,
                 flagVars, subVars, refreshVars, cbMsg, renderLocals, histVars>>

(* ------------------------------------------------------------------ *)
(* Specification                                                      *)
(* ------------------------------------------------------------------ *)
(* Topics appear on and disappear from the ROS graph. *)
GraphChange ==
  /\ crashed = FALSE
  /\ graph' \in Graphs \ {graph}
  /\ UNCHANGED <<ctlVars, msg, sceneVars, cfgVars, flagVars, subVars,
                 topicList, currentIndex, topics,
                 cbMsg, renderLocals, guiLocals, histVars>>

RosNext ==
  \/ Deliver \/ CallbackLock \/ CallbackWrite

RenderNext ==
  \/ RenderEvent \/ UpdateLock \/ UpdateCheck \/ UpdateMarker
  \/ UpdateFrame \/ UpdateError \/ UpdateRoot \/ UpdateHide \/ UpdateLoop
  \/ UpdateCreateAxis \/ UpdateCreateArrow \/ UpdatePose \/ UpdatePlace
  \/ UpdateDirty \/ UpdateVisuals \/ UpdateClean

GuiNext ==
  \/ Load \/ PanelCall \/ GuiLock
  \/ SetTopicStd \/ SetTopicQ \/ UpdateQoS \/ Unsubscribe \/ ResetLoop \/ ResetMsg
  \/ SubscribeLock \/ Subscribe
  \/ RefreshLock \/ OnRefresh \/ RefreshReturn
  \/ SetShape \/ SetAxisHeadVisibility \/ SetAxisDimensions \/ SetArrowDimensions
  \/ SetColor \/ SetLineColor \/ SetOffset

(* The display: the three threads, on a ROS graph that does not change. *)
Next == RosNext \/ RenderNext \/ GuiNext

Spec == Init /\ [][Next]_vars

(* The topic list: the gui thread on a changing ROS graph. *)
NextRefresh == GraphChange \/ GuiNext

SpecRefresh == Init /\ [][NextRefresh]_vars

(* ------------------------------------------------------------------ *)
(* The display while its dimensions and shape are configured           *)
(* ------------------------------------------------------------------ *)
(* The dimension and shape slots of the panel. *)
ConfigOps ==
  {o \in PanelOps : o.op \in {"setShape", "setAxisHeadVisibility",
                               "setAxisDimensions", "setArrowDimensions"}}

(* The panel calls a dimension or shape slot. *)
ConfigCall ==
  /\ At("gui", "idle")
  /\ nOps < MaxConfigOps
  /\ nOps' = nOps + 1
  /\ gop' \in ConfigOps
  /\ Step("gui", "g_lock")
  /\ UNCHANGED <<msg, sceneVars, cfgVars, flagVars, subVars, refreshVars,
                 cbMsg, renderLocals, gi, maxRendered, nMsgs, nUpdates>>

(* Render events keep arriving: eventFilter calls update() again; the count
   of render events stays at its bound. *)
RenderEventAgain ==
  /\ At("render", "idle")
  /\ nUpdates = MaxUpdates
  /\ Step("render", "u_lock")
  /\ UNCHANGED <<msg, sceneVars, cfgVars, flagVars, subVars, refreshVars,
                 cbMsg, renderLocals, guiLocals, histVars>>

RenderConfigNext == RenderNext \/ RenderEventAgain

GuiConfigNext ==
  \/ Load \/ ConfigCall \/ GuiLock
  \/ SetTopicStd \/ SubscribeLock \/ Subscribe
  \/ RefreshLock \/ OnRefresh \/ RefreshReturn
  \/ SetShape \/ SetAxisHeadVisibility \/ SetAxisDimensions \/ SetArrowDimensions

NextConfig == RosNext \/ RenderConfigNext \/ GuiConfigNext

(* Every thread that can take a step of a call it is in eventually takes
   one, and the render thread keeps receiving render events; the executor
   need not deliver and the panel need not call. *)
FairConfig ==
  /\ WF_vars(RenderConfigNext)
  /\ WF_vars(CallbackLock \/ CallbackWrite)
  /\ WF_vars(GuiLock \/ SetTopicStd \/ SubscribeLock \/ Subscribe
               \/ RefreshLock \/ OnRefresh \/ RefreshReturn
               \/ SetShape \/ SetAxisHeadVisibility \/ SetAxisDimensions
               \/ SetArrowDimensions)

SpecConfig == Init /\ [][NextConfig]_vars /\ FairConfig

(* The same with every call run to its end before another thread steps. *)
NextConfigSerial ==
  /\ NextConfig
  /\ \A t \in Threads :
       pc'[t] # pc[t] => \A o \in Threads \ {t} : pc[o] \in {"idle", "load"}

SpecConfigSerial == Init /\ [][NextConfigSerial]_vars /\ FairConfig

(* The same operations with every call run to its end before another thread
   steps: what the lock would give if it were held for the body.  Used only to
   compare with Spec. *)
Quiet(t) == pc[t] \in {"idle", "load"}

NextSerial ==
  /\ Next
  /\ \A t \in Threads :
       pc'[t] # pc[t] => \A o \in Threads \ {t} : Quiet(o)

SpecSerial == Init /\ [][NextSerial]_vars

(* ------------------------------------------------------------------ *)
(* Vocabulary of the properties                                       *)
(* ------------------------------------------------------------------ *)
(* Program points outside the body of a lock-taking method: not in a call, or
   at its lock_guard statement. *)
OutsideBody ==
  {"idle", "load", "cb_lock", "u_lock", "g_lock"}

InBody(t) == pc[t] \notin OutsideBody

(* update after its first read of this->msg (line 142) and before its return. *)
UpdateAfterFirstRead ==
  {"u_marker", "u_frame", "u_error", "u_root", "u_hide", "u_loop", "u_axis",
   "u_arrow", "u_pose", "u_place", "u_dirty", "u_visual", "u_clean"}

AllIdle == \A t \in Threads : pc[t] = "idle"

Points == IF Len(geometries) = 0 THEN <<>> ELSE geometries[1].points

PointPositions == [k \in 1..Len(Points) |-> Points[k].pos]

(* ------------------------------------------------------------------ *)
(* C1                                                                 *)
(* ------------------------------------------------------------------ *)
(* C1: callback is never writing this->msg while update is between its first
   read of this->msg and its return, and no two threads are inside the body
   of a lock-taking method at the same time. *)
C1_MutualExclusion ==
  /\ ~(pc["ros"] = "cb_write" /\ pc["render"] \in UpdateAfterFirstRead)
  /\ \A t1 \in Threads : \A t2 \in Threads \ {t1} : ~(InBody(t1) /\ InBody(t2))

(* ------------------------------------------------------------------ *)
(* C2                                                                 *)
(* ------------------------------------------------------------------ *)
(* C2: except while update is between its two push_back calls (the axis of a
   pair exists, its arrow not yet), arrows and axes have the same length, and
   entry i of each is the visual created for pose index i. *)
C2_InSync ==
  pc["render"] # "u_arrow" =>
    /\ Len(arrows) = Len(axes)
    /\ \A k \in 1..Len(axes) :
         /\ axes[k].forPose = k - 1
         /\ arrows[k].forPose = k - 1

(* Two pairs exist, a reset has cleared the message, nothing is running. *)
C2_Witness ==
  /\ AllIdle
  /\ Len(axes) = 2
  /\ Len(arrows) = 2
  /\ msg = NoMsg

(* ------------------------------------------------------------------ *)
(* C3                                                                 *)
(* ------------------------------------------------------------------ *)
(* The number of messages whose callback has returned. *)
Received == nMsgs - (IF pc["ros"] = "idle" THEN 0 ELSE 1)

(* C3: one slot, last write wins.  The slot msg holds nothing or the message
   received last (the one whose callback returned last), whatever was
   buffered before; and the pose update draws for index i is pose i of the
   message in the slot when it reads it, so a message overwritten earlier is
   not drawn. *)
C3_LastWriteWins ==
  /\ [](msg # NoMsg => msg.seq = Received)
  /\ [][(pc["render"] = "u_pose" /\ pc'["render"] = "u_place"
           /\ msg # NoMsg /\ ui < Len(msg.poses))
          => localPose' = msg.poses[ui + 1]]_vars

(* The second message received has replaced the first and update is drawing
   one of its poses. *)
C3_Witness ==
  /\ pc["render"] = "u_place"
  /\ msg # NoMsg
  /\ msg.seq = 2
  /\ ui < Len(msg.poses)
  /\ localPose = msg.poses[ui + 1]

(* ------------------------------------------------------------------ *)
(* C4                                                                 *)
(* ------------------------------------------------------------------ *)
(* A step of update, taken before the lookup has succeeded, while the
   buffered message names a frame the lookup fails for. *)
FailingUpdateStep ==
  /\ pc'["render"] # pc["render"]
  /\ pc["render"] \in {"u_lock", "u_check", "u_marker", "u_frame", "u_error"}
  /\ msg # NoMsg
  /\ ~FramePoseAvailable(msg.frame_id)

(* C4 as stated: no step of an update whose lookup fails changes the root
   visual pose, the line marker or its points, the arrows and axes, the dirty
   and createMarker flags or the buffered message. *)
C4_UpdateSkipped ==
  [][FailingUpdateStep =>
       UNCHANGED <<rootPose, geometries, arrows, axes, dirty, createMarker, msg>>]_vars

(* C4 amended: such an update logs the error and returns, and changes nothing
   of the root visual pose, the arrows and axes, the dirty flag and the
   buffered message; if createMarker was set it has replaced the line marker
   by a new one without points and cleared createMarker, otherwise it leaves
   the marker and the flag as they were. *)
C4_UpdateSkippedButMarker ==
  [][FailingUpdateStep =>
       /\ UNCHANGED <<rootPose, arrows, axes, dirty, msg>>
       /\ IF pc["render"] = "u_marker" /\ createMarker
            THEN geometries' = <<NewMarker>> /\ createMarker' = FALSE
            ELSE UNCHANGED <<geometries, createMarker>>
       /\ pc["render"] = "u_frame" => pc'["render"] = "u_error"
       /\ pc["render"] = "u_error" => pc'["render"] = "idle"]_vars

(* The lookup has just failed in a display that shows a path: arrows placed
   by an earlier update are still there, the line has been replaced by an
   empty marker. *)
C4_Witness ==
  /\ pc["render"] = "u_error"
  /\ msg # NoMsg
  /\ ~FramePoseAvailable(msg.frame_id)
  /\ Len(arrows) > 0
  /\ arrows[1].pose # ZeroPose
  /\ geometries = <<NewMarker>>
  /\ createMarker = FALSE

(* ------------------------------------------------------------------ *)
(* C5                                                                 *)
(* ------------------------------------------------------------------ *)
(* The display shows path with shape shape: the first Len(path) pairs are
   placed at its poses (the arrow turned by the fixed rotation) and visible
   as the shape says, every further pair is hidden, the line has the
   positions of the path. *)
Shows(path, shape) ==
  /\ Len(path) <= Len(axes)
  /\ Len(path) <= Len(arrows)
  /\ \A k \in 1..Len(path) :
       /\ axes[k].pose = path[k]
       /\ axes[k].visible = (shape = 2)
       /\ arrows[k].pose = [pos |-> path[k].pos, rot |-> PitchedRot(path[k].rot)]
       /\ arrows[k].visible = (shape = 1)
  /\ \A k \in (Len(path) + 1)..Len(axes) : ~axes[k].visible
  /\ \A k \in (Len(path) + 1)..Len(arrows) : ~arrows[k].visible
  /\ PointPositions = Positions(path)

(* C5: when update has placed the poses (its pose loop has ended), the
   display shows the poses of one message, 0..n-1 in order, with one shape. *)
C5_Rendered ==
  pc["render"] = "u_dirty" =>
    \E v \in Variants : \E n \in 0..MaxPoses : \E shape \in Shapes :
      Shows(PathOf(v, n), shape)

(* ------------------------------------------------------------------ *)
(* C6                                                                 *)
(* ------------------------------------------------------------------ *)
(* C6: when update has placed the poses, the number of arrow/axis pairs is
   the largest pose count among the messages rendered so far. *)
C6_CountIsMaxRendered ==
  pc["render"] = "u_dirty" =>
    /\ Len(axes) = maxRendered
    /\ Len(arrows) = maxRendered

(* ------------------------------------------------------------------ *)
(* C7                                                                 *)
(* ------------------------------------------------------------------ *)
(* C7: once setTopic(QString) or updateQoS has subscribed again, a buffered
   message is one the new subscription delivered, never one of the previous
   subscription. *)
C7_NoMessageOfPreviousSubscription ==
  (subscriber # NoSub /\ msg # NoMsg) => msg.sub = subscriber.id

(* ------------------------------------------------------------------ *)
(* C8                                                                 *)
(* ------------------------------------------------------------------ *)
(* C8: while no call is running and no message is buffered (that is, from a
   reset to the next callback), every arrow and axis is at the zero pose. *)
C8_ZeroPoseAfterReset ==
  (AllIdle /\ msg = NoMsg) =>
    /\ \A k \in 1..Len(axes) : axes[k].pose = ZeroPose
    /\ \A k \in 1..Len(arrows) : arrows[k].pose = ZeroPose

(* ------------------------------------------------------------------ *)
(* C9                                                                 *)
(* ------------------------------------------------------------------ *)
(* update from marker = GeometryByIndex(0) (line 175) to its return. *)
UpdateAfterLookup ==
  {"u_hide", "u_loop", "u_axis", "u_arrow", "u_pose", "u_place", "u_dirty",
   "u_visual", "u_clean"}

(* C9: the root visual never holds more than one geometry; createMarker is
   set as long as no marker has been created, is set by every setLineColor
   and is cleared only by the step of update that has just put a new, empty
   marker in place, so a marker exists whenever update reaches
   GeometryByIndex(0) and from there on; and when update has drawn the line
   with no setLineColor since it last looked at createMarker, every point
   carries the configured colour. *)
C9_MarkerLifecycle ==
  /\ [](Len(geometries) <= 1)
  /\ [](Len(geometries) = 0 => createMarker)
  /\ [](pc["render"] \in {"u_root"} \cup UpdateAfterLookup => Len(geometries) = 1)
  /\ [][(createMarker /\ ~createMarker')
          => pc["render"] = "u_marker" /\ geometries' = <<NewMarker>>]_vars
  /\ [][(pc["gui"] = "g_body" /\ gop.op = "setLineColor" /\ pc'["gui"] # "g_body")
          => createMarker' /\ color' = gop.color]_vars
  /\ []((pc["render"] = "u_dirty" /\ ~createMarker /\ pc["gui"] = "idle")
          => \A k \in 1..Len(Points) : Points[k].color = color)

(* An update that looked at createMarker after setLineColor(1) has drawn a
   line of two points. *)
C9_Witness ==
  /\ pc["render"] = "u_dirty"
  /\ nUpdates = 2
  /\ pc["gui"] = "idle"
  /\ color = 1
  /\ ~createMarker
  /\ Len(Points) = 2
  /\ \A k \in 1..Len(Points) : Points[k].color = 1

(* ------------------------------------------------------------------ *)
(* C10                                                                *)
(* ------------------------------------------------------------------ *)
(* The names of the entries that advertise the path type, in the order of the
   entries. *)
PathTopicNames(entries) ==
  LET advertised == SelectSeq(entries,
                      LAMBDA e : \E k \in 1..Len(e.second) : e.second[k] = PathType)
  IN [k \in 1..Len(advertised) |-> advertised[k].first]

(* The 0-based index of name in list, 0 when it is not in it. *)
IndexIn(list, name) ==
  IF \E k \in 1..Len(list) : list[k] = name
    THEN (CHOOSE k \in 1..Len(list) : list[k] = name) - 1
    ELSE 0

(* C10: when onRefresh has emitted setCurrentIndex, topicList is the names of
   the topics it enumerated that advertise nav_msgs/msg/Path, in enumeration
   order, and the index emitted is that of topic_name in topicList, or 0 when
   topic_name is not in it. *)
C10_TopicList ==
  pc["gui"] = "g_ref_ret" =>
    /\ topicList = PathTopicNames(topics)
    /\ currentIndex = IndexIn(topicList, topic_name)

(* onRefresh has found the configured topic second in a list of two. *)
C10_Witness ==
  /\ pc["gui"] = "g_ref_ret"
  /\ Len(topicList) = 2
  /\ topicList[2] = topic_name
  /\ currentIndex = 1

(* ------------------------------------------------------------------ *)
(* C11                                                                *)
(* ------------------------------------------------------------------ *)
(* Every arrow and axis has the dimensions updateVisual computes from the
   configured shaft, head and axis values. *)
Configured ==
  /\ \A k \in 1..Len(arrows) :
       arrows[k] = ArrowDimensions(arrows[k], shaftLength, shaftRadius,
                                   headLength, headRadius)
  /\ \A k \in 1..Len(axes) :
       axes[k] = AxisDimensions(axes[k], axisLength, axisRadius)

(* C11: whenever dirty is false and no call is running, every existing arrow
   and axis has the dimensions computed from the configured values. *)
C11_NoConfigurationLost ==
  (AllIdle /\ ~dirty) => Configured

(* ------------------------------------------------------------------ *)
(* C12                                                                *)
(* ------------------------------------------------------------------ *)
(* A message is buffered and the lookup of its frame succeeds. *)
Renderable == msg # NoMsg /\ FramePoseAvailable(msg.frame_id)

(* C12, the safety part: dirty, once set, is cleared by nothing but the last
   statement of update's dirty block, never on a path of update that returns
   early; and when it is cleared, the configuration has been applied: every
   visual has the configured dimensions. *)
C12_AppliedWhenCleared ==
  [][(dirty /\ ~dirty') => (pc["render"] = "u_clean" /\ Configured')]_vars

(* C12, with the liveness part: dirty is cleared only by update's dirty
   block; and if dirty is set, then, as render events keep occurring, either
   the message stops being renderable or a state is reached where dirty is
   false and every visual has the configured dimensions. *)
C12_EventuallyApplied ==
  /\ [][(dirty /\ ~dirty') => pc["render"] = "u_clean"]_vars
  /\ dirty ~> ((~dirty /\ Configured) \/ ~Renderable)

====
